---- MODULE Spec2Model ----
(***************************************************************************)
(* Market Research agent: the request pipeline of MarketResearchAgent      *)
(* (agents/market_researcher.py) over the tool registry of                 *)
(* tools/web_tools.py.  Queries are character strings; the string methods  *)
(* the code uses (lower, in, split, strip) are computed character by       *)
(* character.                                                              *)
(***************************************************************************)
EXTENDS Integers, Sequences, FiniteSets, TLC

VARIABLES
    query,          \* the query string handed to research / the method under test
    research_plan,  \* the plan dict: [steps, tools_to_use]
    company,        \* local `company` of _execute_research_plan
    market,         \* local `market` of _execute_research_plan
    results,        \* local `results` of _execute_research_plan: [query, timestamp, data]
    i,              \* position of the for loop over plan["tools_to_use"] (1-based)
    calls,          \* the tool invocations made so far: <<[tool, args, outcome]>>
    clock,          \* what datetime.now() reads
    pc,             \* position of the control flow
    insights,       \* local `insights` of research
    response,       \* what the last research call returned
    agent,          \* "none" before MarketResearchAgent() is constructed, then "ready"
    research_results, \* self.research_results
    history,        \* the research calls that returned: <<[query, results, response]>>
    requests,       \* number of research calls made on the agent
    argv,           \* the parsed command line of main
    env,            \* what the process finds: model type, API keys, the genai library
    inputs,         \* what input() gave interactive_chat so far: lines typed, exceptions raised
    printed,        \* what the process printed after the banner, in order
    exit_status,    \* status of the process once it ended, -1 while it runs
    registry,       \* the keys of the module-level dict AVAILABLE_TOOLS, in dict order
    lookups         \* the registry calls made so far: <<[op, name, result]>>

\* the locals of one research call after the executor
request_vars == <<insights, response>>

\* the agent object and what has been asked of it
agent_vars == <<agent, research_results, history, requests>>

\* the tool registry and the calls of its three functions
registry_vars == <<registry, lookups>>

\* the process around the agent
process_vars == <<argv, env, inputs, printed, exit_status>>

vars == <<query, research_plan, company, market, results, i, calls, clock, pc,
          request_vars, agent_vars, process_vars, registry_vars>>

----------------------------------------------------------------------------
(* Bounds of the model *)

\* longest word sequence a generated query is built from
MaxWords == 3
\* longest plan handed directly to the executor
MaxPlan == 3

----------------------------------------------------------------------------
(* Python string methods *)

\* characters str.strip() and str.split() treat as whitespace
Whitespace == {" ", "\t", "\n", "\r"}

UpperToLower ==
    [c \in {"A","B","C","D","E","F","G","H","I","J","K","L","M",
            "N","O","P","Q","R","S","T","U","V","W","X","Y","Z"} |->
        CASE c = "A" -> "a" [] c = "B" -> "b" [] c = "C" -> "c" [] c = "D" -> "d"
          [] c = "E" -> "e" [] c = "F" -> "f" [] c = "G" -> "g" [] c = "H" -> "h"
          [] c = "I" -> "i" [] c = "J" -> "j" [] c = "K" -> "k" [] c = "L" -> "l"
          [] c = "M" -> "m" [] c = "N" -> "n" [] c = "O" -> "o" [] c = "P" -> "p"
          [] c = "Q" -> "q" [] c = "R" -> "r" [] c = "S" -> "s" [] c = "T" -> "t"
          [] c = "U" -> "u" [] c = "V" -> "v" [] c = "W" -> "w" [] c = "X" -> "x"
          [] c = "Y" -> "y" [] c = "Z" -> "z"]

\* s[n:] (n counted from 1: the text from character n on)
From(s, n) == SubSeq(s, n, Len(s))

\* c.lower() for a single character c
LowerChar(c) == IF c \in DOMAIN UpperToLower THEN UpperToLower[c] ELSE c

RECURSIVE Lower(_)
\* str.lower(): every character lower-cased (computed by halves)
Lower(s) ==
    IF Len(s) = 0 THEN ""
    ELSE IF Len(s) = 1 THEN LowerChar(s)
    ELSE Lower(SubSeq(s, 1, Len(s) \div 2)) \o Lower(From(s, Len(s) \div 2 + 1))

\* min(S), max(S) of a non-empty set of numbers
Least(S) == CHOOSE n \in S : \A m \in S : n <= m
Greatest(S) == CHOOSE n \in S : \A m \in S : n >= m

\* the positions at which k occurs in s
Occurrences(s, k) ==
    {n \in 1..(Len(s) - Len(k) + 1) : SubSeq(s, n, n + Len(k) - 1) = k}

\* k in s
Contains(s, k) == Occurrences(s, k) # {}

\* s.find(k), counted from 1; 0 when k does not occur in s
Find(s, k) ==
    IF Contains(s, k) THEN Least(Occurrences(s, k)) ELSE 0

RECURSIVE SplitOn(_, _)
\* s.split(k) for a non-empty separator k
SplitOn(s, k) ==
    IF Find(s, k) = 0 THEN <<s>>
    ELSE <<SubSeq(s, 1, Find(s, k) - 1)>> \o SplitOn(From(s, Find(s, k) + Len(k)), k)

\* the positions of the characters of s that are not whitespace
Solid(s) == {n \in 1..Len(s) : SubSeq(s, n, n) \notin Whitespace}

\* the positions of the whitespace characters of s
Blank(s) == {n \in 1..Len(s) : SubSeq(s, n, n) \in Whitespace}

\* str.lstrip()
LStrip(s) == IF Solid(s) = {} THEN "" ELSE From(s, Least(Solid(s)))

\* str.rstrip()
RStrip(s) == IF Solid(s) = {} THEN "" ELSE SubSeq(s, 1, Greatest(Solid(s)))

\* str.strip()
Strip(s) == RStrip(LStrip(s))

\* the length of the leading run of non-whitespace characters of s
WordLen(s) == IF Blank(s) = {} THEN Len(s) ELSE Least(Blank(s)) - 1

RECURSIVE Split(_)
\* str.split(): the maximal runs of non-whitespace characters
Split(s) ==
    LET t == LStrip(s)
    IN  IF t = "" THEN <<>>
        ELSE <<SubSeq(t, 1, WordLen(t))>> \o Split(From(t, WordLen(t) + 1))

\* a test that asks for every word of the set
AllIn(words, text) == \A w \in words : Contains(text, w)

\* any(word in text for word in words)
AnyIn(words, text) == \E word \in words : Contains(text, word)

----------------------------------------------------------------------------
(* tools/web_tools.py: the registry *)

\* a registry that was never given search_latest_news
AVAILABLE_TOOLS_WithoutNews ==
    << "search_company_info", "analyze_market_trends", "search_competitor_analysis",
       "generate_market_report", "send_email_report" >>

\* the keys of AVAILABLE_TOOLS, in dict order
AVAILABLE_TOOLS ==
    << "search_company_info", "analyze_market_trends", "search_competitor_analysis",
       "search_latest_news", "generate_market_report", "send_email_report" >>

Range(s) == {s[n] : n \in DOMAIN s}

\* get_tool(tool_name): the callable, or ValueError
get_tool(tool_name) ==
    IF tool_name \notin Range(AVAILABLE_TOOLS)
    THEN [raised |-> TRUE,  error |-> "Tool '" \o tool_name \o "' not found"]
    ELSE [raised |-> FALSE, function |-> tool_name]

----------------------------------------------------------------------------
(* MarketResearchAgent._simulate_agent_planning *)

EmptyPlan == [steps |-> <<>>, tools_to_use |-> <<>>]

\* a trigger branch that inserts at the front of the plan
AppendToolAtFront(plan, hit, tool, step) ==
    IF hit
    THEN [steps |-> <<step>> \o plan.steps,
          tools_to_use |-> <<tool>> \o plan.tools_to_use]
    ELSE plan

\* the pair of appends of one trigger branch
AppendTool(plan, hit, tool, step) ==
    IF hit
    THEN [steps |-> Append(plan.steps, step),
          tools_to_use |-> Append(plan.tools_to_use, tool)]
    ELSE plan

DefaultPlan ==
    [steps |-> << "Search for company information", "Analyze market trends",
                  "Search for latest news", "Generate comprehensive report" >>,
     tools_to_use |-> << "search_company_info", "analyze_market_trends",
                         "search_latest_news", "generate_market_report" >>]

\* the gate of line 173
Gate(query_lower) ==
    Contains(query_lower, "research") \/ Contains(query_lower, "analyze")

\* a trigger set for analyze_market_trends that leaves "market" out
MarketWordsWithoutMarket == {"trends", "industry"}

\* the keyword lists of the five trigger branches
CompanyWords    == {"company", "apple", "google", "microsoft"}
MarketWords     == {"market", "trends", "industry"}
CompetitorWords == {"competitor", "competition"}
NewsWords       == {"news", "latest", "recent"}
ReportWords     == {"report", "generate", "create"}

\* the plan after the trigger branches (lines 165-192)
TriggeredPlan(q) ==
    LET query_lower == Lower(q)
        gate == Gate(query_lower)
        p1 == AppendTool(EmptyPlan, gate /\ AnyIn(CompanyWords, query_lower),
                         "search_company_info", "Search for company information")
        p2 == AppendTool(p1, gate /\ AnyIn(MarketWords, query_lower),
                         "analyze_market_trends", "Analyze market trends")
        p3 == AppendTool(p2, gate /\ AnyIn(CompetitorWords, query_lower),
                         "search_competitor_analysis", "Analyze competitors")
        p4 == AppendTool(p3, gate /\ AnyIn(NewsWords, query_lower),
                         "search_latest_news", "Search for latest news")
        p5 == AppendTool(p4, gate /\ AnyIn(ReportWords, query_lower),
                         "generate_market_report", "Generate comprehensive report")
    IN  p5

\* a planner without the fallback of lines 195-207
simulate_agent_planning_NoDefault(q) == TriggeredPlan(q)

simulate_agent_planning(q) ==
    IF TriggeredPlan(q).tools_to_use = <<>> THEN DefaultPlan ELSE TriggeredPlan(q)

----------------------------------------------------------------------------
(* MarketResearchAgent._extract_company_name / _extract_market *)

\* the reference list with Tesla moved to its head
companies_TeslaFirst ==
    << "Tesla", "Apple", "Google", "Microsoft", "Amazon", "Meta", "Netflix" >>

\* companies of line 323
companies == << "Apple", "Google", "Microsoft", "Amazon", "Tesla", "Meta", "Netflix" >>

extract_company_name(q) ==
    LET hits == {n \in DOMAIN companies : Contains(Lower(q), Lower(companies[n]))}
        words == Split(q)
    IN  IF hits # {}
        THEN companies[Least(hits)]
        ELSE IF words # <<>> THEN words[Len(words)] ELSE "Company"

\* an extractor that never looks for "market" in the query
extract_market_DefaultOnly(q, comp) == comp \o " market"

extract_market(q, comp) ==
    LET parts == SplitOn(Lower(q), "market")
    IN  IF Contains(Lower(q), "market") /\ Len(parts) > 1
        THEN IF Strip(parts[2]) # "" THEN Split(Strip(parts[2]))[1] ELSE ""
        ELSE comp \o " market"

----------------------------------------------------------------------------
(* tools/web_tools.py: ResearchTools *)

search_company_info(company_name, now) ==
    [company |-> company_name,
     status |-> "success",
     data |-> [founded |-> "2001",
               headquarters |-> "Cupertino, California",
               employees |-> "161,000+",
               industry |-> "Technology",
               sectors |-> <<"Consumer Electronics", "Software", "Services">>,
               market_cap |-> "$3.2 Trillion",
               key_products |-> <<"iPhone", "Mac", "iPad", "Apple Watch">>,
               website |-> "https://www." \o Lower(company_name) \o ".com"],
     timestamp |-> now]

analyze_market_trends(mkt, now) ==
    [market |-> mkt,
     timeframe |-> "1_year",
     status |-> "success",
     data |-> [market_size |-> "$500 Billion",
               growth_rate |-> "12% CAGR",
               key_trends |-> <<"AI integration in all products",
                                "Shift to cloud-based services",
                                "Increased focus on sustainability",
                                "Premium market expansion">>,
               growth_drivers |-> <<"Emerging markets expansion", "5G adoption",
                                    "IoT proliferation">>,
               challenges |-> <<"Supply chain disruptions", "Regulatory pressure",
                                "Competition intensification">>],
     timestamp |-> now]

search_competitor_analysis(competitor_name, now) ==
    [competitor |-> competitor_name,
     metrics_analyzed |-> <<"revenue", "market_share", "growth_rate", "market_position">>,
     status |-> "success",
     data |-> [annual_revenue |-> "$394.3 Billion",
               market_share |-> "15.2%",
               growth_rate |-> "8.5% YoY",
               market_position |-> "Leader",
               key_strengths |-> <<"Strong brand recognition", "Loyal customer base",
                                   "Vertical integration">>,
               weaknesses |-> <<"Limited ecosystem flexibility", "High price point",
                                "Service gaps">>,
               opportunities |-> <<"Emerging markets", "New categories",
                                   "Services expansion">>,
               threats |-> <<"Regulatory scrutiny", "Intense competition",
                             "Tech disruption">>],
     timestamp |-> now]

search_latest_news(q, now) ==
    [query |-> q,
     days_back |-> 30,
     status |-> "success",
     articles |-> << [title |-> q \o " announces new AI features",
                      source |-> "TechCrunch", date |-> "2024-02-20",
                      summary |-> "Revolutionary AI integration announced",
                      url |-> "https://example.com/article1"],
                     [title |-> q \o " expands into new market",
                      source |-> "Reuters", date |-> "2024-02-19",
                      summary |-> "Strategic expansion initiative launched",
                      url |-> "https://example.com/article2"],
                     [title |-> q \o " Q4 earnings beat estimates",
                      source |-> "Bloomberg", date |-> "2024-02-18",
                      summary |-> "Strong financial performance reported",
                      url |-> "https://example.com/article3"] >>,
     article_count |-> 3,
     timestamp |-> now]

\* datetime.strftime("%Y-%m-%d"): the date of a clock reading (a reading per day)
strftime(now) == "D" \o ToString(now)

generate_market_report(comp, mkt, now) ==
    [company |-> comp,
     market |-> mkt,
     status |-> "success",
     report |-> [title |-> "Market Analysis Report: " \o comp,
                 date |-> strftime(now),
                 sections |->
                     [executive_summary |->
                          comp \o " operates in a dynamic " \o mkt
                               \o " with significant growth potential. "
                               \o "The company maintains a strong market position with innovative products and services.",
                      market_overview |->
                          "The " \o mkt
                               \o " is experiencing rapid transformation driven by technological advancement "
                               \o "and changing consumer preferences. Market growth is projected at 12% CAGR.",
                      competitive_landscape |->
                          comp \o " faces intense competition but maintains differentiation through brand strength "
                               \o "and innovation. Key competitors include [Research Identified Competitors].",
                      opportunities |-> <<"Emerging market expansion", "New product categories",
                                          "Services diversification", "Geographic expansion">>,
                      threats |-> <<"Regulatory changes", "Market saturation",
                                    "Intense competition", "Supply chain risks">>,
                      recommendations |->
                          <<"Invest in AI and machine learning capabilities",
                            "Expand into high-growth emerging markets",
                            "Strengthen ecosystem partnerships",
                            "Enhance sustainability initiatives">>],
                 data_sources |-> <<"Company filings and reports",
                                    "Industry research databases",
                                    "News and media sources",
                                    "Competitive intelligence",
                                    "Market research firms">>],
     timestamp |-> now]

\* the tool the executor calls for a plan name, applied to its arguments
CallTool(tool_name, args, now) ==
    CASE tool_name = "search_company_info"        -> search_company_info(args[1], now)
      [] tool_name = "analyze_market_trends"      -> analyze_market_trends(args[1], now)
      [] tool_name = "search_competitor_analysis" -> search_competitor_analysis(args[1], now)
      [] tool_name = "search_latest_news"         -> search_latest_news(args[1], now)
      [] tool_name = "generate_market_report"     -> generate_market_report(args[1], args[2], now)

\* r without its field f
Without(r, f) == [k \in DOMAIN r \ {f} |-> r[k]]

\* Python's None, as a value no dict method applies to
PyNone == [py_none |-> TRUE]

\* isinstance(v, dict), for the values a tool hands back
IsDict(v) == "py_none" \notin DOMAIN v

\* What a call made inside the executor's try block can do.  The tools of
\* this repository always return status success; a tool replaced by a
\* failing one raises, returns an error status, returns a payload that
\* has no status, or returns no dict at all.
Outcomes == {"returns", "raises", "returns_error", "returns_no_status",
             "returns_none"}

\* the call of a tool under one outcome: what it returns, or what it raises
Invoke(tool_name, args, outcome, now) ==
    CASE outcome = "returns" ->
             [raised |-> FALSE, value |-> CallTool(tool_name, args, now)]
      [] outcome = "raises" ->
             [raised |-> TRUE, error |-> tool_name \o " failed"]
      [] outcome = "returns_error" ->
             [raised |-> FALSE,
              value |-> [status |-> "error", error |-> tool_name \o " failed",
                         timestamp |-> now]]
      [] outcome = "returns_no_status" ->
             [raised |-> FALSE,
              value |-> Without(CallTool(tool_name, args, now), "status")]
      [] outcome = "returns_none" ->
             [raised |-> FALSE, value |-> PyNone]

----------------------------------------------------------------------------
(* The queries the checks run on *)

\* words the generated queries are built from: gate verbs, trigger keywords,
\* known and unknown subjects, a word that merely contains a keyword, and
\* the empty word (which yields leading, trailing and doubled blanks)
Vocabulary ==
    { "", "Research", "ANALYZE", "Apple", "Tesla", "market", "Marketing",
      "competitor", "news", "report", "asdf", "Inc" }

RECURSIVE Join(_)
\* " ".join(ws)
Join(ws) ==
    IF ws = <<>> THEN ""
    ELSE IF Len(ws) = 1 THEN ws[1]
    ELSE ws[1] \o " " \o Join(Tail(ws))

WordQueries ==
    {Join(ws) : ws \in UNION {[1..n -> Vocabulary] : n \in 0..MaxWords}}

\* the docstring example of research()
AppleReportQuery == "Research Apple Inc and generate a market report"

\* a request that names a company, a market, competitors, news and a report
FiveOperationQuery == "Research Apple market competitor news report"

\* queries the repository itself runs
ScenarioQueries ==
    { AppleReportQuery,
      FiveOperationQuery,
      "Tell me about Tesla Inc",
      "What are the latest trends in the technology sector?",
      "Research the digital health and telemedicine market",
      "Research Apple Inc, analyze the smartphone market, identify key competitors, and generate a market report",
      "asdf",
      "" }

Queries == WordQueries \cup ScenarioQueries

----------------------------------------------------------------------------
(* State *)

NoPlan == EmptyPlan
NoResults == [query |-> "", timestamp |-> 0, data |-> <<>>]

\* no research call has returned a summary or a report yet
NoRequest == insights = "" /\ response = ""

\* the parsed command line of a process that was given no flag
NoArgs == [tools |-> FALSE, info |-> FALSE, interactive |-> FALSE,
           research |-> "", web |-> FALSE]

\* an environment in which MarketResearchAgent() succeeds
GoodEnv == [model_type |-> "google", google_key |-> TRUE, other_key |-> FALSE,
            genai |-> "works"]

\* the state of an agent constructed by the caller (examples.py, tests) on
\* which one call is being made
DirectCall ==
    /\ NoRequest
    /\ agent = "ready"
    /\ research_results = <<>>
    /\ history = <<>>
    /\ requests = 1
    /\ argv = NoArgs
    /\ env = GoodEnv
    /\ inputs = <<>>
    /\ printed = <<>>
    /\ exit_status = -1
    /\ registry = AVAILABLE_TOOLS
    /\ lookups = <<>>

\* a caller holding a query, about to plan
InitPlan ==
    /\ query \in Queries
    /\ research_plan = NoPlan
    /\ company = ""
    /\ market = ""
    /\ results = NoResults
    /\ i = 0
    /\ calls = <<>>
    /\ clock = 0
    /\ pc = "plan"
    /\ DirectCall

\* research_plan = self._simulate_agent_planning(query)
SimulateAgentPlanning ==
    /\ pc = "plan"
    /\ research_plan' = simulate_agent_planning(query)
    /\ pc' = "planned"
    /\ UNCHANGED <<query, company, market, results, i, calls, clock>>
    /\ UNCHANGED <<request_vars, agent_vars, process_vars, registry_vars>>

\* company = self._extract_company_name(query); market = self._extract_market(query, company)
ExtractEntities ==
    /\ pc = "planned"
    /\ company' = extract_company_name(query)
    /\ market' = extract_market(query, extract_company_name(query))
    /\ pc' = "extracted"
    /\ UNCHANGED <<query, research_plan, results, i, calls, clock>>
    /\ UNCHANGED <<request_vars, agent_vars, process_vars, registry_vars>>

----------------------------------------------------------------------------
(* MarketResearchAgent._execute_research_plan *)

\* d[key] = value
Put(d, key, value) ==
    [k \in DOMAIN d \cup {key} |-> IF k = key THEN value ELSE d[k]]

\* a or b, on strings
Or(a, b) == IF a # "" THEN a ELSE b

\* the names the if/elif chain of the loop body dispatches
Dispatched ==
    { "search_company_info", "analyze_market_trends", "search_competitor_analysis",
      "search_latest_news", "generate_market_report" }

\* the key of results["data"] a dispatched tool's return value is stored under
ResultKey(tool_name) ==
    CASE tool_name = "search_company_info"        -> "company_info"
      [] tool_name = "analyze_market_trends"      -> "market_trends"
      [] tool_name = "search_competitor_analysis" -> "competitor_analysis"
      [] tool_name = "search_latest_news"         -> "latest_news"
      [] tool_name = "generate_market_report"     -> "report"

\* the arguments a dispatched tool is called with
ToolArgs(tool_name, comp, mkt) ==
    CASE tool_name = "search_company_info"        -> <<comp>>
      [] tool_name = "analyze_market_trends"      -> <<Or(mkt, comp)>>
      [] tool_name = "search_competitor_analysis" -> <<comp>>
      [] tool_name = "search_latest_news"         -> <<comp>>
      [] tool_name = "generate_market_report"     -> <<comp, Or(mkt, comp)>>

\* a loop that an exception leaves
NextToolAbortOnRaise(n, raised, last) == IF raised THEN last + 1 ELSE n + 1

\* the loop position after the body ran at position n of a plan of `last`
\* entries: the try block is inside the for loop, so an exception ends the
\* iteration, not the loop
NextTool(n, raised, last) == n + 1

\* an except clause that stores a status next to the message
ErrorEntry_WithStatus(message) == [status |-> "error", error |-> message]

\* except Exception as e: results["data"][tool_name] = {"error": str(e)}
ErrorEntry(message) == [error |-> message]

\* the assignment of the loop body, or the one of its except clause
Store(d, tool_name, r) ==
    IF r.raised
    THEN Put(d, tool_name, ErrorEntry(r.error))
    ELSE Put(d, ResultKey(tool_name), r.value)

tools_to_use == research_plan.tools_to_use

\* results = {...}; company = ...; market = ...
ExecuteBegin ==
    /\ pc = "planned"
    /\ results' = [query |-> query, timestamp |-> clock, data |-> <<>>]
    /\ company' = extract_company_name(query)
    /\ market' = extract_market(query, extract_company_name(query))
    /\ i' = 1
    /\ pc' = "loop"
    /\ UNCHANGED <<query, research_plan, calls, clock>>
    /\ UNCHANGED <<request_vars, agent_vars, process_vars, registry_vars>>

\* one iteration of the loop whose tool_name is dispatched
ToolStep(tool_name) ==
    /\ pc = "loop"
    /\ i <= Len(tools_to_use)
    /\ tools_to_use[i] = tool_name
    /\ \E outcome \in Outcomes :
          LET args == ToolArgs(tool_name, company, market)
              r == Invoke(tool_name, args, outcome, clock)
          IN  /\ results' = [results EXCEPT !.data = Store(@, tool_name, r)]
              /\ calls' = Append(calls, [tool |-> tool_name, args |-> args,
                                         outcome |-> outcome])
              /\ i' = NextTool(i, r.raised, Len(tools_to_use))
    /\ UNCHANGED <<query, research_plan, company, market, clock, pc>>
    /\ UNCHANGED <<request_vars, agent_vars, process_vars, registry_vars>>

SearchCompanyInfoStep == ToolStep("search_company_info")
AnalyzeMarketTrendsStep == ToolStep("analyze_market_trends")
SearchCompetitorAnalysisStep == ToolStep("search_competitor_analysis")
SearchLatestNewsStep == ToolStep("search_latest_news")
GenerateMarketReportStep == ToolStep("generate_market_report")

\* one iteration of the loop whose tool_name matches no branch of the chain:
\* nothing is called and nothing is stored
NoBranchStep ==
    /\ pc = "loop"
    /\ i <= Len(tools_to_use)
    /\ tools_to_use[i] \notin Dispatched
    /\ i' = i + 1
    /\ UNCHANGED <<query, research_plan, company, market, results, calls, clock, pc>>
    /\ UNCHANGED <<request_vars, agent_vars, process_vars, registry_vars>>

\* return results
ExecuteReturn ==
    /\ pc = "loop"
    /\ i > Len(tools_to_use)
    /\ pc' = "done"
    /\ UNCHANGED <<query, research_plan, company, market, results, i, calls, clock>>
    /\ UNCHANGED <<request_vars, agent_vars, process_vars, registry_vars>>

DispatchStep ==
    \/ SearchCompanyInfoStep
    \/ AnalyzeMarketTrendsStep
    \/ SearchCompetitorAnalysisStep
    \/ SearchLatestNewsStep
    \/ GenerateMarketReportStep

----------------------------------------------------------------------------
(* MarketResearchAgent._generate_insights *)

\* The module is written in ASCII: each non-ASCII character of the program's
\* text is written as its code point.
BarChart   == "<U+1F4CA>"
Office     == "<U+1F3E2>"
ChartUp    == "<U+1F4C8>"
Newspaper  == "<U+1F4F0>"
PageFacing == "<U+1F4C4>"
Robot      == "<U+1F916>"
CheckMark  == "<U+2705>"
Bullet     == "<U+2022>"

\* "=" * 60
Rule == "============================================================"

\* d.get(key, default)
Get(d, key, default) == IF key \in DOMAIN d THEN d[key] ELSE default

\* the empty dict and the empty list
EmptyDict == <<>>
EmptyList == <<>>

\* a summary that leaves a missing field blank
NA_Blank == ""

\* the placeholder of a missing field
NA == "N/A"

\* a slice that keeps the whole list
TakeAll(seq) == seq

\* seq[:3]
Take3(seq) == SubSeq(seq, 1, IF Len(seq) < 3 THEN Len(seq) ELSE 3)

RECURSIVE Concat(_)
\* "".join(lines)
Concat(lines) ==
    IF lines = <<>> THEN "" ELSE Head(lines) \o Concat(Tail(lines))

\* "  <bullet> <label>: <value>\n"
Field(label, value) == "  " \o Bullet \o " " \o label \o ": " \o value \o "\n"

\* the first line of each block
OverviewHeader == Office \o " COMPANY OVERVIEW:\n"
TrendsHeader   == ChartUp \o " MARKET TRENDS:\n"
NewsHeader(n)  == Newspaper \o " LATEST NEWS (" \o ToString(n) \o " articles):\n"
ReportHeader   == PageFacing \o " REPORT GENERATED:\n"

\* lines 283-290
CompanyOverview(entry) ==
    LET company_data == Get(entry, "data", EmptyDict)
    IN  OverviewHeader
            \o Field("Founded", Get(company_data, "founded", NA))
            \o Field("Headquarters", Get(company_data, "headquarters", NA))
            \o Field("Employees", Get(company_data, "employees", NA))
            \o Field("Industry", Get(company_data, "industry", NA))
            \o Field("Market Cap", Get(company_data, "market_cap", NA))
            \o "\n"

\* lines 292-301
MarketTrends(entry) ==
    LET trends_data == Get(entry, "data", EmptyDict)
    IN  TrendsHeader
            \o Field("Growth Rate", Get(trends_data, "growth_rate", NA))
            \o Field("Market Size", Get(trends_data, "market_size", NA))
            \o (IF "key_trends" \in DOMAIN trends_data
                THEN "  " \o Bullet \o " Key Trends:\n"
                         \o Concat([n \in DOMAIN Take3(trends_data.key_trends) |->
                                       "    - " \o Take3(trends_data.key_trends)[n] \o "\n"])
                ELSE "")
            \o "\n"

\* lines 303-308
LatestNews(entry) ==
    LET news_data == Get(entry, "articles", EmptyList)
    IN  NewsHeader(Len(news_data))
            \o Concat([n \in DOMAIN Take3(news_data) |->
                          "  " \o Bullet \o " " \o Get(Take3(news_data)[n], "title", NA)
                               \o " (" \o Get(Take3(news_data)[n], "source", NA) \o ")\n"])
            \o "\n"

\* lines 310-314
ReportGenerated(entry) ==
    LET report_data == Get(entry, "report", EmptyDict)
    IN  ReportHeader
            \o Field("Title", Get(report_data, "title", NA))
            \o Field("Date", Get(report_data, "date", NA))

\* sections in the order news, trends: a summary that swaps two blocks
SectionKeysSwapped == << "company_info", "latest_news", "market_trends", "report" >>

\* the keys of results["data"] the summary reads, in the order of its blocks
SectionKeys == << "company_info", "market_trends", "latest_news", "report" >>

\* the block of one key
Section(key, entry) ==
    CASE key = "company_info"  -> CompanyOverview(entry)
      [] key = "market_trends" -> MarketTrends(entry)
      [] key = "latest_news"   -> LatestNews(entry)
      [] key = "report"        -> ReportGenerated(entry)

\* _generate_insights(results, query): the summary, or the AttributeError of
\* calling .get on an entry that is no dict
generate_insights(res) ==
    LET data == Get(res, "data", EmptyDict)
    IN  IF \E n \in DOMAIN SectionKeys :
               SectionKeys[n] \in DOMAIN data /\ ~IsDict(data[SectionKeys[n]])
        THEN [raised |-> TRUE,
              error |-> "'NoneType' object has no attribute 'get'"]
        ELSE [raised |-> FALSE,
              value |-> BarChart \o " RESEARCH INSIGHTS:\n" \o Rule \o "\n\n"
                          \o Concat([n \in DOMAIN SectionKeys |->
                                        IF SectionKeys[n] \in DOMAIN data
                                        THEN Section(SectionKeys[n], data[SectionKeys[n]])
                                        ELSE ""])
                          \o "\n" \o Rule \o "\n"]

----------------------------------------------------------------------------
(* MarketResearchAgent._format_response *)

\* AgentConfig.AGENT_NAME
AGENT_NAME == "ResearcherBot"

\* datetime.isoformat(): one text per clock reading
isoformat(now) == "T" \o ToString(now)

\* a report text that numbers the requests of the agent
format_response_Numbered(res, text) ==
    Robot \o " MARKET RESEARCH AGENT REPORT #" \o ToString(requests) \o "\n"
        \o text

\* a report text that lists the first failure of the request before it closes
format_response_WithErrors(res, text) ==
    Robot \o " MARKET RESEARCH AGENT REPORT\n" \o Rule \o "\n\n"
        \o text
        \o (LET failed == {k \in DOMAIN res.data : "error" \in DOMAIN res.data[k]}
            IN  IF failed = {} THEN ""
                ELSE "Failed: " \o res.data[CHOOSE k \in failed : TRUE].error)
        \o "\n" \o CheckMark \o " Research completed successfully!\n"

\* the report text of _format_response(results, insights)
format_response(res, text) ==
    Robot \o " MARKET RESEARCH AGENT REPORT\n" \o Rule \o "\n\n"
        \o "Research Request: " \o res.query \o "\n"
        \o "Timestamp: " \o isoformat(res.timestamp) \o "\n"
        \o "Agent: " \o AGENT_NAME \o "\n\n"
        \o text
        \o "\n" \o CheckMark \o " Research completed successfully!\n"

----------------------------------------------------------------------------
(* MarketResearchAgent.research after the executor: steps 5 and 6 and the
   except clause *)

\* the record of a call that returned: what was asked, the Research Result
\* the executor built for it, the text handed to the caller, the tool calls
\* it made and what the clock read
Returned(text) ==
    [query |-> query, results |-> results, response |-> text,
     calls |-> calls, at |-> clock]

\* insights = self._generate_insights(results, query); an exception leaves
\* the try block and research returns the error text
GenerateInsights ==
    /\ pc = "done"
    /\ LET r == generate_insights(results)
       IN  IF r.raised
           THEN /\ response' = "Error during research: " \o r.error
                /\ history' = Append(history, Returned(response'))
                /\ pc' = "returned"
                /\ UNCHANGED insights
           ELSE /\ insights' = r.value
                /\ pc' = "synthesized"
                /\ UNCHANGED <<response, history>>
    /\ UNCHANGED <<query, research_plan, company, market, results, i, calls, clock>>
    /\ UNCHANGED <<agent, research_results, requests, process_vars, registry_vars>>

\* response = self._format_response(results, insights); return response
FormatResponse ==
    /\ pc = "synthesized"
    /\ response' = format_response(results, insights)
    /\ research_results' = results
    /\ history' = Append(history, Returned(response'))
    /\ pc' = "returned"
    /\ UNCHANGED <<query, research_plan, company, market, results, i, calls, clock>>
    /\ UNCHANGED <<insights, agent, requests, process_vars, registry_vars>>

\* names a plan handed to the executor is made of: the registry's names and
\* one the registry does not know
PlanNames == Range(AVAILABLE_TOOLS) \cup {"unknown_tool"}

Plans == UNION {[1..n -> PlanNames] : n \in 0..MaxPlan}

\* the queries the executor is run on: (subject, scope) is ("Apple", "report")
\* for the first and ("market", "") for the second
ExecQueries ==
    { AppleReportQuery, "Research the digital health and telemedicine market" }

\* _execute_research_plan(plan, query) called with any plan
InitExec ==
    /\ query \in ExecQueries
    /\ \E p \in Plans : research_plan = [steps |-> <<>>, tools_to_use |-> p]
    /\ company = ""
    /\ market = ""
    /\ results = NoResults
    /\ i = 0
    /\ calls = <<>>
    /\ clock = 0
    /\ pc = "planned"
    /\ DirectCall

NextExec == ExecuteBegin \/ DispatchStep \/ NoBranchStep \/ ExecuteReturn

SpecExec == InitExec /\ [][NextExec]_vars

\* research(query) up to the return of _execute_research_plan; the planner
\* emits dispatched names only, so the loop never takes NoBranchStep here
Init ==
    /\ query \in ScenarioQueries
    /\ research_plan = NoPlan
    /\ company = ""
    /\ market = ""
    /\ results = NoResults
    /\ i = 0
    /\ calls = <<>>
    /\ clock = 0
    /\ pc = "plan"
    /\ DirectCall

Next ==
    \/ SimulateAgentPlanning \/ ExecuteBegin \/ DispatchStep \/ ExecuteReturn
    \/ GenerateInsights \/ FormatResponse

Spec == Init /\ [][Next]_vars

----------------------------------------------------------------------------
(* The planner and the entity extractor on their own *)

NextPlan == SimulateAgentPlanning \/ ExtractEntities

\* the planner and the entity extractor applied to every query
SpecPlan == InitPlan /\ [][NextPlan]_vars

----------------------------------------------------------------------------
(* The executor followed by the synthesis, on plans in every order *)

\* the plans that list dispatched operations, none twice, in any order
OrderedPlans ==
    {p \in UNION {[1..n -> Dispatched] : n \in 0..MaxPlan} :
        \A m, n \in DOMAIN p : p[m] = p[n] => m = n}

\* a caller holding a plan and a query, about to execute and synthesize
InitSummary ==
    /\ query \in ExecQueries
    /\ \E p \in OrderedPlans : research_plan = [steps |-> <<>>, tools_to_use |-> p]
    /\ company = ""
    /\ market = ""
    /\ results = NoResults
    /\ i = 0
    /\ calls = <<>>
    /\ clock = 0
    /\ pc = "planned"
    /\ DirectCall

NextSummary == ExecuteBegin \/ DispatchStep \/ ExecuteReturn \/ GenerateInsights

SpecSummary == InitSummary /\ [][NextSummary]_vars

----------------------------------------------------------------------------
(* One agent asked several times while the clock advances *)

\* most research calls made on one agent
MaxRequests == 2

\* latest reading of the clock
MaxClock == 2

\* requests whose plans are one operation long
SessionQueries == {"Research report", "Research news"}

\* an agent just constructed, asked a first time
InitSession ==
    /\ query \in SessionQueries
    /\ research_plan = NoPlan
    /\ company = ""
    /\ market = ""
    /\ results = NoResults
    /\ i = 0
    /\ calls = <<>>
    /\ clock = 0
    /\ pc = "plan"
    /\ DirectCall

\* the caller asks the same agent again
NewRequest ==
    /\ pc = "returned"
    /\ requests < MaxRequests
    /\ query' \in SessionQueries
    /\ research_plan' = NoPlan
    /\ company' = ""
    /\ market' = ""
    /\ results' = NoResults
    /\ i' = 0
    /\ calls' = <<>>
    /\ insights' = ""
    /\ response' = ""
    /\ requests' = requests + 1
    /\ pc' = "plan"
    /\ UNCHANGED <<clock, agent, research_results, history, process_vars, registry_vars>>

\* time passes, during a call or between two calls
Tick ==
    /\ clock < MaxClock
    /\ clock' = clock + 1
    /\ UNCHANGED <<query, research_plan, company, market, results, i, calls, pc>>
    /\ UNCHANGED <<request_vars, agent_vars, process_vars, registry_vars>>

\* the loop body for the operations the session's plans hold
SessionStep == SearchLatestNewsStep \/ GenerateMarketReportStep

NextSession ==
    \/ SimulateAgentPlanning \/ ExecuteBegin \/ SessionStep \/ ExecuteReturn
    \/ GenerateInsights \/ FormatResponse
    \/ NewRequest \/ Tick

SpecSession == InitSession /\ [][NextSession]_vars

----------------------------------------------------------------------------
(* tools/web_tools.py: get_tool, list_tools, get_tool_description *)

\* most registry calls in a row
MaxLookups == 2

\* AVAILABLE_TOOLS[name]["description"]
ToolDescriptions ==
    [search_company_info |->
         "Search for comprehensive information about a company including founding, headquarters, employees, industry, market cap, and key products.",
     analyze_market_trends |->
         "Analyze trends in a specific market or industry including market size, growth rate, key trends, growth drivers, and challenges.",
     search_competitor_analysis |->
         "Analyze competitor performance, strategy, strengths, weaknesses, opportunities, and threats (SWOT analysis).",
     search_latest_news |->
         "Search for the latest news, announcements, and developments related to a company or topic.",
     generate_market_report |->
         "Generate a comprehensive market analysis report with executive summary, market overview, competitive analysis, opportunities, threats, and recommendations.",
     send_email_report |->
         "Send the research report to a recipient via email."]

\* a description lookup that answers with an empty text for an unknown name
get_tool_description_Lenient(tool_name) ==
    IF tool_name \notin Range(AVAILABLE_TOOLS)
    THEN [raised |-> FALSE, description |-> ""]
    ELSE [raised |-> FALSE, description |-> ToolDescriptions[tool_name]]

\* get_tool_description(tool_name): the description, or ValueError
get_tool_description(tool_name) ==
    IF tool_name \notin Range(AVAILABLE_TOOLS)
    THEN [raised |-> TRUE,  error |-> "Tool '" \o tool_name \o "' not found"]
    ELSE [raised |-> FALSE, description |-> ToolDescriptions[tool_name]]

\* list_tools(): list(AVAILABLE_TOOLS.keys())
list_tools == [raised |-> FALSE, names |-> AVAILABLE_TOOLS]

\* names the registry is asked for: its keys, and names that differ from a
\* key by case, by a blank, or by being a result key, the empty name and an
\* unknown one
LookupNames ==
    Range(AVAILABLE_TOOLS)
        \cup {"unknown_tool", "", "Search_Company_Info", "search_company_info ",
              "company_info"}

\* the module is imported and nothing has been looked up
InitRegistry ==
    /\ query = ""
    /\ research_plan = NoPlan
    /\ company = ""
    /\ market = ""
    /\ results = NoResults
    /\ i = 0
    /\ calls = <<>>
    /\ clock = 0
    /\ pc = "imported"
    /\ NoRequest
    /\ agent = "none"
    /\ research_results = <<>>
    /\ history = <<>>
    /\ requests = 0
    /\ argv = NoArgs
    /\ env = GoodEnv
    /\ inputs = <<>>
    /\ printed = <<>>
    /\ exit_status = -1
    /\ registry = AVAILABLE_TOOLS
    /\ lookups = <<>>

\* a registry call that writes nothing but its own result
Looked(op, name, result) ==
    /\ Len(lookups) < MaxLookups
    /\ lookups' = Append(lookups, [op |-> op, name |-> name, result |-> result])
    /\ UNCHANGED <<query, research_plan, company, market, results, i, calls, clock, pc>>
    /\ UNCHANGED <<request_vars, agent_vars, process_vars, registry>>

GetTool == \E name \in LookupNames : Looked("get_tool", name, get_tool(name))

GetToolDescription ==
    \E name \in LookupNames :
        Looked("get_tool_description", name, get_tool_description(name))

ListTools == Looked("list_tools", "", list_tools)

NextRegistry == GetTool \/ GetToolDescription \/ ListTools

SpecRegistry == InitRegistry /\ [][NextRegistry]_vars

----------------------------------------------------------------------------
(* main.py: the process, from the parsed command line to its exit *)

\* most lines interactive_chat reads
MaxInputs == 2

\* the request of run_demo
DemoQuery ==
    "Research Apple Inc, analyze the smartphone market trends, identify key competitors, and generate a comprehensive market report"

\* the request given with --research
CustomQuery == "Research news"

\* the parsed command lines: each flag set or not, --research given or not
Args ==
    [tools : BOOLEAN, info : BOOLEAN, interactive : BOOLEAN,
     research : {"", CustomQuery}, web : BOOLEAN]

\* what the process finds: MODEL_TYPE, whether GOOGLE_API_KEY is set, whether
\* the key of the other provider is set, and whether google.generativeai is
\* missing, works, or raises when configured
Envs ==
    [model_type : {"google", "anthropic", "openai", "other"},
     google_key : BOOLEAN, other_key : BOOLEAN,
     genai : {"missing", "works", "raises"}]

\* a routing that looks at the agent modes before --tools and --info
ModeAgentFirst(a) ==
    IF a.interactive THEN "interactive"
    ELSE IF a.research # "" THEN "research"
    ELSE IF a.web THEN "web"
    ELSE IF a.tools THEN "tools"
    ELSE IF a.info THEN "info"
    ELSE "demo"

\* the if/elif chain of main
Mode(a) ==
    IF a.tools THEN "tools"
    ELSE IF a.info THEN "info"
    ELSE IF a.interactive THEN "interactive"
    ELSE IF a.research # "" THEN "research"
    ELSE IF a.web THEN "web"
    ELSE "demo"

\* config.get_model_config(): the model type it returns, or what it raises
get_model_config(e) ==
    CASE e.model_type = "google" ->
             IF e.google_key
             THEN [raised |-> FALSE, type |-> "google"]
             ELSE [raised |-> TRUE, error |-> "GOOGLE_API_KEY not found!"]
      [] e.model_type = "anthropic" ->
             IF e.other_key
             THEN [raised |-> FALSE, type |-> "anthropic"]
             ELSE [raised |-> TRUE, error |-> "Anthropic API key not configured"]
      [] e.model_type = "openai" ->
             IF e.other_key
             THEN [raised |-> FALSE, type |-> "openai"]
             ELSE [raised |-> TRUE, error |-> "OpenAI API key not configured"]
      [] OTHER ->
             [raised |-> TRUE, error |-> "Unknown model type: " \o e.model_type]

\* an initialization that accepts every provider get_model_config returns
initialize_model_AnyProvider(e) ==
    LET model_config == get_model_config(e)
    IN  IF model_config.raised THEN model_config
        ELSE IF model_config.type = "google" /\ e.genai = "missing"
        THEN [raised |-> TRUE, error |-> "google-genai library not installed"]
        ELSE [raised |-> FALSE]

\* MarketResearchAgent._initialize_model: whether it raises, and what
initialize_model(e) ==
    LET model_config == get_model_config(e)
    IN  IF model_config.raised THEN model_config
        ELSE IF model_config.type = "google"
        THEN IF e.genai = "missing"
             THEN [raised |-> TRUE, error |-> "google-genai library not installed"]
             ELSE IF e.genai = "raises"
             THEN [raised |-> TRUE, error |-> "genai.configure failed"]
             ELSE [raised |-> FALSE]
        ELSE [raised |-> TRUE,
              error |-> "Model type not supported in demo: " \o model_config.type]

\* the process has parsed its command line and is about to route
InitMain ==
    /\ argv \in Args
    /\ env \in Envs
    /\ query = ""
    /\ research_plan = NoPlan
    /\ company = ""
    /\ market = ""
    /\ results = NoResults
    /\ i = 0
    /\ calls = <<>>
    /\ clock = 0
    /\ pc = "main"
    /\ NoRequest
    /\ agent = "none"
    /\ research_results = <<>>
    /\ history = <<>>
    /\ requests = 0
    /\ inputs = <<>>
    /\ printed = <<>>
    /\ exit_status = -1
    /\ registry = AVAILABLE_TOOLS
    /\ lookups = <<>>

\* what a call of research leaves untouched when it starts
request_locals == <<research_plan, company, market, results, i, calls, insights, response>>

\* the process ends with a status
Exit(status) == exit_status' = status /\ pc' = "exited"

\* except Exception as e: print the error; sys.exit(1)
ExitOnError(message) ==
    /\ printed' = Append(printed, "Error: " \o message)
    /\ Exit(1)

\* agent = MarketResearchAgent() failed inside the try block of a mode
ConstructionFails ==
    /\ initialize_model(env).raised
    /\ ExitOnError(initialize_model(env).error)
    /\ UNCHANGED <<query, request_locals, clock, agent_vars, argv, env, inputs, registry_vars>>

\* agent = MarketResearchAgent() succeeded; agent.research(q) is called
ConstructAndResearch(q) ==
    /\ ~initialize_model(env).raised
    /\ agent' = "ready"
    /\ query' = q
    /\ requests' = requests + 1
    /\ pc' = "plan"
    /\ UNCHANGED <<request_locals, clock, research_results, history, process_vars, registry_vars>>

\* args.tools: the banner and the agent information
list_tools_mode ==
    /\ pc = "main"
    /\ Mode(argv) = "tools"
    /\ printed' = Append(printed, "agent info")
    /\ Exit(0)
    /\ UNCHANGED <<query, request_locals, clock, agent_vars, argv, env, inputs, registry_vars>>

\* args.info: the banner, the agent information and the next steps
info_mode ==
    /\ pc = "main"
    /\ Mode(argv) = "info"
    /\ printed' = Append(printed, "agent info")
    /\ Exit(0)
    /\ UNCHANGED <<query, request_locals, clock, agent_vars, argv, env, inputs, registry_vars>>

\* run_demo, up to the call of agent.research(demo_query)
run_demo ==
    /\ pc = "main"
    /\ Mode(argv) = "demo"
    /\ ConstructionFails \/ ConstructAndResearch(DemoQuery)

\* run_custom_research(args.research), up to the call of agent.research(query)
run_custom_research ==
    /\ pc = "main"
    /\ Mode(argv) = "research"
    /\ ConstructionFails \/ ConstructAndResearch(argv.research)

\* run_web_interface
run_web_interface ==
    /\ pc = "main"
    /\ Mode(argv) = "web"
    /\ \/ ConstructionFails
       \/ /\ ~initialize_model(env).raised
          /\ agent' = "ready"
          /\ printed' = Append(printed, "Status: Ready")
          /\ Exit(0)
          /\ UNCHANGED <<query, request_locals, clock, research_results, history,
                         requests, argv, env, inputs, registry_vars>>

\* run_interactive, up to the first prompt of agent.interactive_chat()
run_interactive ==
    /\ pc = "main"
    /\ Mode(argv) = "interactive"
    /\ \/ ConstructionFails
       \/ /\ ~initialize_model(env).raised
          /\ agent' = "ready"
          /\ pc' = "chat"
          /\ UNCHANGED <<query, request_locals, clock, research_results, history,
                         requests, process_vars, registry_vars>>

\* what the user can type at the prompt
Lines == {"exit", " Exit ", "", CustomQuery}

\* an exit test that tells upper case from lower case
IsExitCaseSensitive(typed) == typed = "exit"

\* query.lower() == "exit"
IsExit(typed) == Lower(typed) = "exit"

\* a turn starts with the locals of research unset
FreshTurn ==
    /\ research_plan' = NoPlan
    /\ company' = ""
    /\ market' = ""
    /\ results' = NoResults
    /\ i' = 0
    /\ calls' = <<>>
    /\ insights' = ""
    /\ response' = ""

\* one turn of the loop of interactive_chat: a line is read and stripped;
\* "exit" ends the loop, an empty line prompts again, anything else is
\* researched
interactive_chat ==
    /\ pc = "chat"
    /\ Len(inputs) < MaxInputs
    /\ \E line \in Lines :
           LET typed == Strip(line)
           IN  /\ inputs' = Append(inputs, [line |-> line])
               /\ IF IsExit(typed)
                  THEN /\ printed' = Append(printed, "Thank you for using the Market Research Agent!")
                       /\ Exit(0)
                       /\ UNCHANGED <<query, requests>>
                  ELSE IF typed = ""
                  THEN /\ printed' = Append(printed, "Please enter a research request")
                       /\ UNCHANGED <<query, requests, pc, exit_status>>
                  ELSE /\ query' = typed
                       /\ requests' = requests + 1
                       /\ pc' = "plan"
                       /\ UNCHANGED <<printed, exit_status>>
    /\ FreshTurn
    /\ UNCHANGED <<clock, agent, research_results, history, argv, env, registry_vars>>

\* KeyboardInterrupt at the prompt: the loop ends and the process with it
chat_interrupted ==
    /\ pc = "chat"
    /\ Len(inputs) < MaxInputs
    /\ inputs' = Append(inputs, [raises |-> "KeyboardInterrupt"])
    /\ printed' = Append(printed, "Agent shutting down...")
    /\ Exit(0)
    /\ UNCHANGED <<query, request_locals, clock, agent_vars, argv, env, registry_vars>>

\* an Exception at the prompt (input() at the end of its stream): the error
\* is printed and the loop prompts again
chat_error ==
    /\ pc = "chat"
    /\ Len(inputs) < MaxInputs
    /\ inputs' = Append(inputs, [raises |-> "EOFError"])
    /\ printed' = Append(printed, "Error: EOF when reading a line")
    /\ UNCHANGED <<query, request_locals, clock, pc, agent_vars, argv, env, exit_status,
                   registry_vars>>

\* research returned to the mode that called it: the text is printed; the
\* chat prompts again, the other modes end
print_result ==
    /\ pc = "returned"
    /\ printed' = Append(printed, response)
    /\ IF Mode(argv) = "interactive"
       THEN pc' = "chat" /\ UNCHANGED exit_status
       ELSE Exit(0)
    /\ UNCHANGED <<query, request_locals, clock, agent_vars, argv, env, inputs, registry_vars>>

NextMain ==
    \/ list_tools_mode \/ info_mode
    \/ run_demo \/ run_custom_research \/ run_web_interface \/ run_interactive
    \/ interactive_chat \/ chat_interrupted \/ chat_error \/ print_result
    \/ SimulateAgentPlanning \/ ExecuteBegin \/ DispatchStep \/ ExecuteReturn
    \/ GenerateInsights \/ FormatResponse

SpecMain == InitMain /\ [][NextMain]_vars

----------------------------------------------------------------------------
(* _generate_insights on its own: the Research Results it is handed *)

\* longest key_trends / articles list of a payload
MaxList == 4

\* a key_trends list of n entries
TrendList(n) == [j \in 1..n |-> "trend " \o ToString(j)]

\* an articles list of n entries
ArticleList(n) ==
    [j \in 1..n |-> [title |-> "title " \o ToString(j),
                     source |-> "source " \o ToString(j)]]

\* what a tool hands back when it reports its own failure
ReturnedError == [status |-> "error", error |-> "lookup failed", timestamp |-> "T0"]

\* entries a company lookup can leave under "company_info"
CompanyEntries ==
    { search_company_info("Apple", 0),
      Without(search_company_info("Apple", 0), "status"),
      [status |-> "success", data |-> [founded |-> "1976"]],
      [status |-> "success", data |-> EmptyDict],
      [status |-> "success"],
      ReturnedError }

\* entries a trend analysis can leave under "market_trends"
TrendEntries ==
    { [status |-> "success",
       data |-> [growth_rate |-> "12% CAGR", market_size |-> "$500 Billion",
                 key_trends |-> TrendList(n)]] : n \in 0..MaxList }
    \cup
    { [status |-> "success", data |-> [key_trends |-> TrendList(n)]] : n \in 1..MaxList }
    \cup
    { [status |-> "success", data |-> [growth_rate |-> "12% CAGR"]],
      [status |-> "success"],
      ReturnedError }

\* entries a news search can leave under "latest_news"
NewsEntries ==
    { [status |-> "success", articles |-> ArticleList(n)] : n \in 0..MaxList }
    \cup
    { [status |-> "success", articles |-> << [title |-> "title 1"] >>],
      [status |-> "success", articles |-> << [source |-> "source 1"] >>],
      [status |-> "success"],
      ReturnedError }

\* entries a report generation can leave under "report"
ReportEntries ==
    { generate_market_report("Apple", "smartphone", 0),
      [status |-> "success", report |-> [title |-> "Market Analysis Report: Apple"]],
      [status |-> "success", report |-> [date |-> strftime(0)]],
      [status |-> "success", report |-> EmptyDict],
      [status |-> "success"],
      ReturnedError }

\* entries a competitor analysis can leave under "competitor_analysis"
CompetitorEntries == { search_competitor_analysis("Apple", 0) }

\* what one operation leaves in results["data"]: nothing when it was not
\* planned, the except clause's entry under its own name when it raised, a
\* returned entry under its result key otherwise
Leaves(tool_name, entries) ==
    { EmptyDict, [k \in {tool_name} |-> ErrorEntry(tool_name \o " failed")] }
    \cup { [k \in {ResultKey(tool_name)} |-> e] : e \in entries }

\* d1 | d2 for dicts with distinct keys
Merge(d1, d2) ==
    [k \in DOMAIN d1 \cup DOMAIN d2 |-> IF k \in DOMAIN d1 THEN d1[k] ELSE d2[k]]

\* the result maps the executor can hand to _generate_insights
ResultMaps ==
    { Merge(a, Merge(b, Merge(c, Merge(d, e)))) :
        a \in Leaves("search_company_info", CompanyEntries),
        b \in Leaves("analyze_market_trends", TrendEntries),
        c \in Leaves("search_competitor_analysis", CompetitorEntries),
        d \in Leaves("search_latest_news", NewsEntries),
        e \in Leaves("generate_market_report", ReportEntries) }

\* research has the executor's result in hand and is about to synthesize
InitInsights ==
    /\ query = AppleReportQuery
    /\ research_plan = NoPlan
    /\ company = ""
    /\ market = ""
    /\ \E d \in ResultMaps : results = [query |-> query, timestamp |-> 0, data |-> d]
    /\ i = 0
    /\ calls = <<>>
    /\ clock = 0
    /\ pc = "done"
    /\ DirectCall

NextInsights == GenerateInsights

SpecInsights == InitInsights /\ [][NextInsights]_vars

----------------------------------------------------------------------------
(* Properties of _execute_research_plan, checked under SpecExec *)

\* the entry e carries status st
HasStatus(e, st) == "status" \in DOMAIN e /\ e.status = st

\* the entries results["data"] holds for a tool: under its own name or
\* under its result key
EntriesOf(tool_name) ==
    {results.data[key] :
        key \in ({tool_name} \cup (IF tool_name \in Dispatched
                                   THEN {ResultKey(tool_name)} ELSE {}))
                    \cap DOMAIN results.data}

\* the names invoked, in invocation order
Invoked == [k \in DOMAIN calls |-> calls[k].tool]

IsDispatched(tool_name) == tool_name \in Dispatched

\* position k is the only call that raised and every other call returned a
\* success result
OnlyFailure(k) ==
    /\ calls[k].outcome = "raises"
    /\ \A j \in DOMAIN calls \ {k} : calls[j].outcome = "returns"

\* C1: failure isolation.  When exactly one operation of the plan raises,
\* the executor's result map holds an entry with status = error for it and
\* an entry with status = success for every other operation.
C1_FailureIsolation ==
    pc = "done" =>
        \A k \in DOMAIN calls :
            OnlyFailure(k) =>
                /\ \E e \in EntriesOf(calls[k].tool) : HasStatus(e, "error")
                /\ \A j \in DOMAIN calls \ {k} :
                       \E e \in EntriesOf(calls[j].tool) : HasStatus(e, "success")

\* C2: completeness.  After the executor returns, the key set of
\* results["data"] is exactly the set of operation names of the plan.
C2_Completeness ==
    pc = "done" => DOMAIN results.data = Range(tools_to_use)

\* C3: execution order and continuation.  The tools invoked so far are the
\* dispatched names of the plan entries already passed, each once and in
\* plan order, whichever of them raised; at the return they are the
\* dispatched names of the whole plan.
C3_OrderAndContinuation ==
    /\ pc = "loop" =>
           /\ i <= Len(tools_to_use) + 1
           /\ Invoked = SelectSeq(SubSeq(tools_to_use, 1, i - 1), IsDispatched)
    /\ pc = "done" => Invoked = SelectSeq(tools_to_use, IsDispatched)

\* an operation raised and operations later in the plan were invoked after it
C3_Witness ==
    /\ pc = "done"
    /\ Len(calls) = 3
    /\ calls[1].outcome = "raises"
    /\ calls[2].outcome = "raises"
    /\ calls[3].outcome = "returns"

\* C4: resolution fault.  After the executor returns, every plan entry whose
\* name the executor cannot resolve has an error entry in results["data"].
C4_ResolutionFault ==
    pc = "done" =>
        \A k \in DOMAIN tools_to_use :
            tools_to_use[k] \notin Dispatched =>
                \E e \in EntriesOf(tools_to_use[k]) :
                    HasStatus(e, "error") \/ "error" \in DOMAIN e

\* C5: malformed payload.  No slot of results["data"] holds a raw value
\* that lacks a status field: every entry has a status or is an error entry.
C5_MalformedPayload ==
    \A key \in DOMAIN results.data :
        \/ "status" \in DOMAIN results.data[key]
        \/ "error" \in DOMAIN results.data[key]

----------------------------------------------------------------------------
(* Properties of _simulate_agent_planning and of the entity extraction,
   checked under SpecPlan *)

\* the four operations of the fallback plan and their step descriptions
C6_Tools ==
    << "search_company_info", "analyze_market_trends", "search_latest_news",
       "generate_market_report" >>

C6_Steps ==
    << "Search for company information", "Analyze market trends",
       "Search for latest news", "Generate comprehensive report" >>

TriggerWords ==
    CompanyWords \cup MarketWords \cup CompetitorWords \cup NewsWords \cup ReportWords

\* the gate holds for the query and a trigger keyword occurs in it
Triggered(q) == Gate(Lower(q)) /\ AnyIn(TriggerWords, Lower(q))

\* C6: default plan.  The plan is never empty, and for a query where the
\* gate does not hold, or holds with no trigger keyword, it is the fixed
\* four-operation plan with its four step descriptions.
C6_DefaultPlan ==
    pc # "plan" =>
        /\ tools_to_use # <<>>
        /\ ~Triggered(query) =>
               /\ tools_to_use = C6_Tools
               /\ research_plan.steps = C6_Steps

\* the gate holds, no trigger keyword occurs, and the planner has answered
C6_Witness ==
    /\ pc = "planned"
    /\ Gate(Lower(query))
    /\ ~Triggered(query)
    /\ tools_to_use = C6_Tools

\* the order of the trigger table
TableOrder ==
    << "search_company_info", "analyze_market_trends", "search_competitor_analysis",
       "search_latest_news", "generate_market_report" >>

\* the position of a name in the trigger table; 0 for a name that is not in it
TablePosition(tool_name) ==
    IF tool_name \in Range(TableOrder)
    THEN CHOOSE n \in DOMAIN TableOrder : TableOrder[n] = tool_name
    ELSE 0

\* C7: the plan lists operations of the trigger table in table order, none
\* of them twice.
C7_TableOrderNoDuplicates ==
    pc # "plan" =>
        /\ \A k \in DOMAIN tools_to_use : TablePosition(tools_to_use[k]) > 0
        /\ \A a, b \in DOMAIN tools_to_use :
               a < b => TablePosition(tools_to_use[a]) < TablePosition(tools_to_use[b])

\* the keywords occur in the query in the reverse of the table order
C7_Witness ==
    /\ pc = "planned"
    /\ query = "report news Research"
    /\ tools_to_use = <<"search_latest_news", "generate_market_report">>

\* C8: every operation name of the plan is resolved by get_tool.
C8_PlanResolvable ==
    pc # "plan" =>
        \A k \in DOMAIN tools_to_use : ~get_tool(tools_to_use[k]).raised

\* a plan of every default operation was produced and resolved
C8_Witness ==
    /\ pc = "planned"
    /\ Len(tools_to_use) = 4
    /\ \A k \in DOMAIN tools_to_use : ~get_tool(tools_to_use[k]).raised

\* C9 (as amended): for the query "Research Apple Inc and generate a market
\* report" the extracted subject is "Apple" and the extracted scope is
\* "report", the token that follows "market" in the query.
C9_AppleEntities ==
    (pc = "extracted" /\ query = AppleReportQuery) =>
        company = "Apple" /\ market = "report"

\* C9 as stated: the subject is "Apple" and the scope is "Apple market".
C9_AsStated ==
    (pc = "extracted" /\ query = AppleReportQuery) =>
        company = "Apple" /\ market = "Apple market"

\* the entities of the query have been extracted
C9_Witness ==
    /\ pc = "extracted"
    /\ query = AppleReportQuery
    /\ company = "Apple"

----------------------------------------------------------------------------
(* Properties of the pipeline, checked under Spec *)

\* every call made returned a success result
AllSucceeded == \A k \in DOMAIN calls : calls[k].outcome = "returns"

\* C10 (as amended): for the query "Research Apple Inc and generate a market
\* report" the plan is [search_company_info, analyze_market_trends,
\* generate_market_report], and when every operation succeeds the result
\* map has exactly three entries, one per plan operation.
C10_ApplePlan ==
    query = AppleReportQuery =>
        /\ pc # "plan" =>
               tools_to_use = << "search_company_info", "analyze_market_trends",
                                 "generate_market_report" >>
        /\ (pc = "done" /\ AllSucceeded) =>
               /\ DOMAIN results.data = {"company_info", "market_trends", "report"}
               /\ \A key \in DOMAIN results.data :
                      HasStatus(results.data[key], "success")

\* C10 as stated: the plan is [search_company_info, generate_market_report]
\* and the result map has exactly two entries.
C10_AsStated ==
    query = AppleReportQuery =>
        /\ pc # "plan" =>
               tools_to_use = <<"search_company_info", "generate_market_report">>
        /\ (pc = "done" /\ AllSucceeded) =>
               Cardinality(DOMAIN results.data) = 2

\* the plan of the query was executed with every operation succeeding
C10_Witness ==
    /\ query = AppleReportQuery
    /\ pc = "done"
    /\ AllSucceeded
    /\ Len(calls) = Len(tools_to_use)

----------------------------------------------------------------------------
(* Properties of the whole request, checked under Spec *)

\* the text of the block of a result key, up to what varies with the payload
HeaderStart(key) ==
    CASE key = "company_info"  -> OverviewHeader
      [] key = "market_trends" -> TrendsHeader
      [] key = "latest_news"   -> Newspaper \o " LATEST NEWS ("
      [] key = "report"        -> ReportHeader

\* the summary text holds the block of the key
HasSection(text, key) == Contains(text, HeaderStart(key))

\* the keys the summary has a block for
Sections == Range(SectionKeys)

\* the entries of results["data"] that carry status st
WithStatus(st) == {key \in DOMAIN results.data : HasStatus(results.data[key], st)}

\* the plan holds each of the five dispatched operations once
FiveOperationPlan ==
    Len(tools_to_use) = 5 /\ Range(tools_to_use) = Dispatched

\* C11: one failure in five.  For the plan of all five dispatched operations,
\* when exactly one of them raises, the Research Result has 5 entries, 4 with
\* status success and 1 with status error, and the summary leaves out the
\* block of the failed operation and keeps the block of every other one.
C11_OneFailureInFive ==
    (pc = "synthesized" /\ FiveOperationPlan) =>
        \A k \in DOMAIN calls :
            OnlyFailure(k) =>
                /\ Cardinality(DOMAIN results.data) = 5
                /\ Cardinality(WithStatus("success")) = 4
                /\ Cardinality(WithStatus("error")) = 1
                /\ \A key \in Sections :
                       HasSection(insights, key) <=> key # ResultKey(calls[k].tool)

----------------------------------------------------------------------------
(* Properties of _generate_insights, checked under SpecInsights *)

\* C12: graceful degradation.  The summary holds the block of a key only if
\* the result map holds that key with an entry of status success; the block
\* is left out when the key is absent or its entry has status error.
C12_GracefulDegradation ==
    pc = "synthesized" =>
        \A key \in Sections :
            HasSection(insights, key) =>
                key \in DOMAIN results.data /\ HasStatus(results.data[key], "success")

\* an entry that reports a failure: the except clause's, or one with status
\* error
IsErrorEntry(e) == e = ErrorEntry(e.error) \/ HasStatus(e, "error")

\* the result map is not empty and holds nothing but error entries
OnlyErrorEntries ==
    /\ DOMAIN results.data # {}
    /\ \A key \in DOMAIN results.data :
           "error" \in DOMAIN results.data[key] /\ IsErrorEntry(results.data[key])

\* C13: for a Research Result that holds only error entries the synthesis
\* does not raise and its summary holds none of the four blocks.
C13_OnlyErrors ==
    (pc # "done" /\ OnlyErrorEntries) =>
        /\ pc = "synthesized"
        /\ \A key \in Sections : ~HasSection(insights, key)

\* payload of the entry under a result key: entry[part], or the empty
\* payload when the key or the part is missing
Payload(key, part, empty) ==
    IF key \in DOMAIN results.data /\ part \in DOMAIN results.data[key]
    THEN results.data[key][part] ELSE empty

\* the line the summary shows for a field that is missing
PlaceholderLine(label) == "  " \o Bullet \o " " \o label \o ": N/A\n"

\* label of each field shown as one line, per result key and payload part
ScalarFields ==
    { <<"company_info", "data", "founded", "Founded">>,
      <<"company_info", "data", "headquarters", "Headquarters">>,
      <<"company_info", "data", "employees", "Employees">>,
      <<"company_info", "data", "industry", "Industry">>,
      <<"company_info", "data", "market_cap", "Market Cap">>,
      <<"market_trends", "data", "growth_rate", "Growth Rate">>,
      <<"market_trends", "data", "market_size", "Market Size">>,
      <<"report", "report", "title", "Title">>,
      <<"report", "report", "date", "Date">> }

\* the fields of ScalarFields that the result lacks under a key it holds
MissingScalars ==
    { f \in ScalarFields :
        f[1] \in DOMAIN results.data /\ f[3] \notin DOMAIN Payload(f[1], f[2], EmptyDict) }

\* the articles listed, and those among them without title / without source
Listed == Take3(Payload("latest_news", "articles", EmptyList))
Untitled == {n \in DOMAIN Listed : "title" \notin DOMAIN Listed[n]}
Unsourced == {n \in DOMAIN Listed : "source" \notin DOMAIN Listed[n]}

\* the list-valued fields the result lacks under a key it holds
MissingLists ==
    {key \in {"market_trends"} \cap DOMAIN results.data :
        "key_trends" \notin DOMAIN Payload(key, "data", EmptyDict)}
    \cup
    {key \in {"latest_news"} \cap DOMAIN results.data :
        "articles" \notin DOMAIN results.data[key]}

\* number of placeholders in the summary
Placeholders == Cardinality(Occurrences(insights, "N/A"))

\* C15: totality of synthesis.  On a Research Result whose entries lack
\* optional payload fields the synthesis returns a summary without raising;
\* every missing single-valued field is shown as N/A on its own line, a
\* missing key_trends list leaves the Key Trends lines out, and a missing
\* articles list is shown as 0 articles.
C15_Totality ==
    pc # "done" =>
        /\ pc = "synthesized"
        /\ \A f \in MissingScalars : Contains(insights, PlaceholderLine(f[4]))
        /\ Placeholders =
               Cardinality(MissingScalars) + Cardinality(Untitled) + Cardinality(Unsourced)
        /\ "market_trends" \in MissingLists => ~Contains(insights, "Key Trends")
        /\ "latest_news" \in MissingLists => Contains(insights, NewsHeader(0))

\* C15 as stated: the summary holds a placeholder for each missing field,
\* list-valued ones included.
C15_AsStated ==
    pc = "synthesized" =>
        Placeholders >=
            Cardinality(MissingScalars) + Cardinality(Untitled) + Cardinality(Unsourced)
                + Cardinality(MissingLists)

\* a summary was made of a result whose company entry has no payload, whose
\* trends entry lacks its key trends and whose first article has no source
C15_Witness ==
    /\ pc = "synthesized"
    /\ "company_info" \in DOMAIN results.data
    /\ "data" \notin DOMAIN results.data["company_info"]
    /\ "market_trends" \in MissingLists
    /\ 1 \in Unsourced
    /\ Placeholders > 5

\* the smaller of two numbers
Min(a, b) == IF a < b THEN a ELSE b

\* the trends payload and the articles list of the result, empty when it has none
TrendsData == Payload("market_trends", "data", EmptyDict)
Articles == Payload("latest_news", "articles", EmptyList)

\* the line of one key trend, and of one article
TrendLine(trend) == "    - " \o trend \o "\n"
ArticleLine(article) ==
    "  " \o Bullet \o " " \o (IF "title" \in DOMAIN article THEN article.title ELSE "N/A")
         \o " (" \o (IF "source" \in DOMAIN article THEN article.source ELSE "N/A") \o ")\n"

\* the lines of the first n entries of a list, in list order
FirstLines(Line(_), list, n) == Concat([j \in 1..n |-> Line(list[j])])

\* the two lines of the report block
ReportLines ==
    LET report_data == Payload("report", "report", EmptyDict)
    IN  "  " \o Bullet \o " Title: "
            \o (IF "title" \in DOMAIN report_data THEN report_data.title ELSE "N/A") \o "\n"
            \o "  " \o Bullet \o " Date: "
            \o (IF "date" \in DOMAIN report_data THEN report_data.date ELSE "N/A") \o "\n"

\* C16: section caps.  Of a key_trends list of n entries the trends block
\* lists the first min(n, 3), in list order, and nothing after them; of an
\* articles list of n entries the news block lists the first min(n, 3), in
\* list order, and nothing after them; the report block is its title and
\* its date and nothing else.
C16_SectionCaps ==
    pc = "synthesized" =>
        /\ "key_trends" \in DOMAIN TrendsData =>
               LET list == TrendsData.key_trends
               IN  /\ Contains(insights,
                               "Key Trends:\n"
                                   \o FirstLines(TrendLine, list, Min(Len(list), 3))
                                   \o "\n")
                   /\ \A j \in 4..Len(list) : ~Contains(insights, TrendLine(list[j]))
        /\ "latest_news" \in DOMAIN results.data =>
               /\ Contains(insights,
                           NewsHeader(Len(Articles))
                               \o FirstLines(ArticleLine, Articles, Min(Len(Articles), 3))
                               \o "\n")
               /\ \A j \in 4..Len(Articles) : ~Contains(insights, ArticleLine(Articles[j]))
        /\ "report" \in DOMAIN results.data =>
               Contains(insights, ReportHeader \o ReportLines \o "\n" \o Rule \o "\n")

\* a summary was made of a result with more than three key trends, more than
\* three articles and a full report
C16_Witness ==
    /\ pc = "synthesized"
    /\ "key_trends" \in DOMAIN TrendsData
    /\ Len(TrendsData.key_trends) > 3
    /\ Len(Articles) > 3
    /\ "report" \in DOMAIN results.data
    /\ results.data["report"] = generate_market_report("Apple", "smartphone", 0)
    /\ Contains(insights, TrendLine("trend 3"))
    /\ ~Contains(insights, "trend 4")

----------------------------------------------------------------------------
(* Properties of the summary of an executed plan, checked under SpecSummary *)

RECURSIVE RunInOrder(_, _)
\* the result map of running the operations of a plan one after the other,
\* each returning its success result
RunInOrder(plan, d) ==
    IF plan = <<>> THEN d
    ELSE RunInOrder(Tail(plan),
                    IF Head(plan) \in Dispatched
                    THEN Put(d, ResultKey(Head(plan)),
                             CallTool(Head(plan), ToolArgs(Head(plan), company, market), clock))
                    ELSE d)

\* the operations of the plan, each once, in the order of the trigger table
InTableOrder == SelectSeq(TableOrder, LAMBDA name : name \in Range(tools_to_use))

\* the summary of the plan's operations run in table order
TableOrderSummary ==
    generate_insights([results EXCEPT !.data = RunInOrder(InTableOrder, EmptyDict)]).value

\* where the block of a key starts in the summary; 0 when it has none
SectionStart(key) == Find(insights, HeaderStart(key))

\* C14: section order.  Whatever the order in which the plan ran its
\* operations, when all succeeded the blocks of the summary come in the order
\* overview, trends, news, report, each at most once, and the summary is the
\* one of the same operations run in table order.
C14_SectionOrder ==
    (pc = "synthesized" /\ AllSucceeded) =>
        /\ \A key \in Sections : Cardinality(Occurrences(insights, HeaderStart(key))) <= 1
        /\ \A a, b \in {"overview", "trends", "news", "report"} :
               LET order == [overview |-> 1, trends |-> 2, news |-> 3, report |-> 4]
                   keyOf == [overview |-> "company_info", trends |-> "market_trends",
                             news |-> "latest_news", report |-> "report"]
               IN  (/\ order[a] < order[b]
                    /\ HasSection(insights, keyOf[a])
                    /\ HasSection(insights, keyOf[b]))
                       => SectionStart(keyOf[a]) < SectionStart(keyOf[b])
        /\ insights = TableOrderSummary

\* a plan that ran report, news, company in that order, all with success,
\* and whose summary holds the three blocks
C14_Witness ==
    /\ pc = "synthesized"
    /\ AllSucceeded
    /\ tools_to_use = << "generate_market_report", "search_latest_news",
                         "search_company_info" >>
    /\ HasSection(insights, "company_info")
    /\ HasSection(insights, "latest_news")
    /\ HasSection(insights, "report")

----------------------------------------------------------------------------
(* Properties of repeated requests, checked under SpecSession *)

\* two calls of the history were given the same query and their operations
\* behaved alike
SameRun(a, b) ==
    /\ history[a].query = history[b].query
    /\ Len(history[a].calls) = Len(history[b].calls)
    /\ \A k \in DOMAIN history[a].calls :
           /\ history[a].calls[k].tool = history[b].calls[k].tool
           /\ history[a].calls[k].args = history[b].calls[k].args
           /\ history[a].calls[k].outcome = history[b].calls[k].outcome

\* the clock did not advance from the moment call a first read it to the
\* return of call b
SameClock(a, b) == history[a].results.timestamp = history[b].at

\* C17: determinism.  Two calls on the same query whose operations behave
\* alike return byte-identical text when the clock reads the same throughout
\* both.
C17_Determinism ==
    \A a, b \in DOMAIN history :
        (a <= b /\ SameRun(a, b) /\ SameClock(a, b)) =>
            history[a].response = history[b].response

\* C17 as stated: two calls on the same query whose operations behave alike
\* return byte-identical text, whatever the clock did between them.
C17_AsStated ==
    \A a, b \in DOMAIN history :
        SameRun(a, b) => history[a].response = history[b].response

\* the same query was run twice at the same clock reading, its operation
\* returning a success result both times, and a report came back
C17_Witness ==
    /\ Len(history) = 2
    /\ SameRun(1, 2)
    /\ SameClock(1, 2)
    /\ history[1].calls # <<>>
    /\ history[1].calls[1].outcome = "returns"
    /\ Contains(history[2].response, "Research completed successfully!")

\* the entries of the result map that report a failure
ErrorEntries ==
    {key \in DOMAIN results.data : "error" \in DOMAIN results.data[key]}

\* C18: a call of research returns a text, and every failure of the request
\* shows in that text as a populated error entry: the text names the error
\* of each entry of the Research Result that reports one.
C18_FailuresInReport ==
    pc = "returned" =>
        /\ history # <<>>
        /\ response = history[Len(history)].response
        /\ \A key \in ErrorEntries : Contains(response, results.data[key].error)

\* C19: last-result cache.  Whenever a call of research has returned,
\* research_results is the Research Result built for that call.
C19_LastResultCache ==
    pc = "returned" =>
        research_results = history[Len(history)].results

----------------------------------------------------------------------------
(* Properties of the process, checked under SpecMain *)

\* the command line asks for a mode that constructs an agent
ConstructsAgent == ~argv.tools /\ ~argv.info

\* C20: bootstrap fault.  In a mode that constructs an agent, when model
\* initialization fails no research request is ever made, and the process
\* ends having printed the error with a status other than 0; with --tools or
\* --info the process constructs no agent and ends with status 0 whatever
\* the environment.
C20_BootstrapFault ==
    /\ (ConstructsAgent /\ initialize_model(env).raised) =>
           /\ requests = 0
           /\ agent = "none"
           /\ pc \in {"main", "exited"}
           /\ pc = "exited" =>
                  /\ exit_status > 0
                  /\ printed = << "Error: " \o initialize_model(env).error >>
    /\ ~ConstructsAgent =>
           /\ agent = "none"
           /\ requests = 0
           /\ pc = "exited" => exit_status = 0

\* a demo run whose environment has no GOOGLE_API_KEY ended with status 1
C20_Witness ==
    /\ pc = "exited"
    /\ Mode(argv) = "demo"
    /\ env.model_type = "google"
    /\ ~env.google_key
    /\ exit_status = 1
    /\ requests = 0

----------------------------------------------------------------------------
(* Properties of the registry functions, checked under SpecRegistry *)

\* the names registered, in the order the registry lists them
RegisteredNames ==
    << "search_company_info", "analyze_market_trends", "search_competitor_analysis",
       "search_latest_news", "generate_market_report", "send_email_report" >>

\* C21: registry lookup.  get_tool and get_tool_description fail with a
\* not-found error for every name that is not registered and return the
\* callable / the description of every name that is; list_tools returns the
\* registered names in registry order; no call changes the registry.
C21_RegistryLookup ==
    /\ registry = RegisteredNames
    /\ \A k \in DOMAIN lookups :
           LET l == lookups[k]
               known == l.name \in Range(RegisteredNames)
           IN  /\ l.op \in {"get_tool", "get_tool_description"} =>
                      /\ l.result.raised <=> ~known
                      /\ ~known => l.result.error = "Tool '" \o l.name \o "' not found"
               /\ (l.op = "get_tool" /\ known) => l.result.function = l.name
               /\ (l.op = "get_tool_description" /\ known) =>
                      l.result.description = ToolDescriptions[l.name]
               /\ l.op = "list_tools" =>
                      ~l.result.raised /\ l.result.names = RegisteredNames

\* a description was asked for a name that differs from a key by case only,
\* then the names were listed
C21_Witness ==
    /\ Len(lookups) = 2
    /\ lookups[1].op = "get_tool_description"
    /\ lookups[1].name = "Search_Company_Info"
    /\ lookups[1].result.raised
    /\ lookups[2].op = "list_tools"

\* what input() gave last
LastInput == inputs'[Len(inputs')]

\* the last input is a typed line whose trimmed text is t
Typed(t) == "line" \in DOMAIN LastInput /\ Strip(LastInput.line) = t

\* the last input is the exit sentinel, in any case and with blanks around
TypedExit == "line" \in DOMAIN LastInput /\ Lower(Strip(LastInput.line)) = "exit"

\* C22: interactive loop.  Every turn of interactive_chat reads one input;
\* the loop ends exactly when the trimmed line is "exit" in any case or the
\* prompt is interrupted; a research call is made exactly when the trimmed
\* line is neither empty nor the sentinel, one call for the line, on the
\* trimmed line; after an empty line or an exception the loop prompts again.
C22_InteractiveLoop ==
    [][ /\ pc = "chat" =>
              /\ Len(inputs') = Len(inputs) + 1
              /\ pc' = "exited" <=>
                     (TypedExit \/ LastInput = [raises |-> "KeyboardInterrupt"])
              /\ pc' = "exited" => exit_status' = 0
              /\ pc' = "plan" <=>
                     ("line" \in DOMAIN LastInput /\ ~Typed("") /\ ~TypedExit)
              /\ pc' = "plan" => (requests' = requests + 1 /\ Typed(query'))
              /\ pc' # "plan" => requests' = requests
              /\ pc' \in {"exited", "plan", "chat"}
        /\ (pc' = "exited" /\ Mode(argv) = "interactive" /\ agent = "ready") =>
              pc = "chat"
      ]_vars

\* a chat that read an empty line and then a request, researched the request
\* and is prompting again
C22_Witness ==
    /\ pc = "chat"
    /\ inputs = << [line |-> ""], [line |-> CustomQuery] >>
    /\ requests = 1
    /\ Len(history) = 1
    /\ exit_status = -1

----------------------------------------------------------------------------
(* Properties of the tools as the request calls them, checked under Spec *)

\* the calls of a tool that returned its own result
ReturnedCalls(tool_name) ==
    {k \in DOMAIN calls : calls[k].tool = tool_name /\ calls[k].outcome = "returns"}

\* C23: for every company name, the result of search_company_info has
\* status "success" and its data record holds a "company" field.
C23_CompanyField ==
    \A k \in ReturnedCalls("search_company_info") :
        LET result == results.data["company_info"]
        IN  /\ result = search_company_info(calls[k].args[1], result.timestamp)
            /\ result.status = "success"
            /\ "company" \in DOMAIN result.data

----------------------------------------------------------------------------
(* Properties of the planner and the extractors, checked under SpecPlan *)

\* the trigger keywords and the step description of each table entry
TriggerTable ==
    [search_company_info |->
         [words |-> {"company", "apple", "google", "microsoft"},
          step |-> "Search for company information"],
     analyze_market_trends |->
         [words |-> {"market", "trends", "industry"},
          step |-> "Analyze market trends"],
     search_competitor_analysis |->
         [words |-> {"competitor", "competition"},
          step |-> "Analyze competitors"],
     search_latest_news |->
         [words |-> {"news", "latest", "recent"},
          step |-> "Search for latest news"],
     generate_market_report |->
         [words |-> {"report", "generate", "create"},
          step |-> "Generate comprehensive report"]]

\* a keyword of the operation is a substring of the lower-cased query
KeywordOf(op) == \E w \in TriggerTable[op].words : Contains(Lower(query), w)

\* an operation is planned exactly when one of its keywords occurs, and the
\* steps are the descriptions of the operations, one for one
PlanFollowsTriggers ==
    /\ \A op \in DOMAIN TriggerTable : op \in Range(tools_to_use) <=> KeywordOf(op)
    /\ Len(research_plan.steps) = Len(tools_to_use)
    /\ \A n \in DOMAIN tools_to_use :
           /\ tools_to_use[n] \in DOMAIN TriggerTable
           /\ research_plan.steps[n] = TriggerTable[tools_to_use[n]].step

\* the lower-cased query holds "research" or "analyze"
GateHolds == Contains(Lower(query), "research") \/ Contains(Lower(query), "analyze")

\* C24: trigger rule.  For every query for which the gate holds and some
\* trigger keyword occurs, an operation is in the plan if and only if one of
\* its keywords is a substring of the lower-cased query, and step i is the
\* description of operation i.
C24_TriggerRule ==
    (pc # "plan" /\ GateHolds /\ \E op \in DOMAIN TriggerTable : KeywordOf(op)) =>
        PlanFollowsTriggers

\* C24 as stated: the same for every query for which the gate holds.
C24_AsStated ==
    (pc # "plan" /\ GateHolds) => PlanFollowsTriggers

\* the gate holds for a query with a company keyword and a news keyword, and
\* the plan is those two operations
C24_Witness ==
    /\ pc = "planned"
    /\ GateHolds
    /\ KeywordOf("search_company_info")
    /\ KeywordOf("search_latest_news")
    /\ tools_to_use = << "search_company_info", "search_latest_news" >>
    /\ research_plan.steps = << "Search for company information", "Search for latest news" >>

\* the lower-cased text that follows the first "market" of the query
AfterMarket == From(Lower(query), Find(Lower(query), "market") + Len("market"))

\* the scope the rule gives: the first token after the first "market", or
\* "<subject> market" when "market" is absent or only blanks follow it
RuleScope ==
    IF Contains(Lower(query), "market") /\ Split(AfterMarket) # <<>>
    THEN Split(AfterMarket)[1]
    ELSE company \o " market"

\* C25: scope resolution.  _extract_market returns the first non-empty token
\* of the text following the first occurrence of "market", and
\* "<subject> market" when "market" is absent or nothing but whitespace
\* follows its first occurrence.
C25_ScopeResolution ==
    pc = "extracted" => market = RuleScope

\* the fixed list of known subjects, in list order
KnownSubjects == << "Apple", "Google", "Microsoft", "Amazon", "Tesla", "Meta", "Netflix" >>

\* the places of the known subjects that occur in the query, whatever the case
Occurring == {n \in DOMAIN KnownSubjects : Contains(Lower(query), Lower(KnownSubjects[n]))}

\* character n of the query is whitespace
IsBlank(n) == SubSeq(query, n, n) \in {" ", "\t", "\n", "\r"}

\* t is the last whitespace-delimited token of the query: a run without
\* whitespace, at the start or after whitespace, with only whitespace after it
IsLastToken(t) ==
    /\ t # ""
    /\ \E p \in 1..Len(query) :
           LET end == p + Len(t) - 1
           IN  /\ end <= Len(query)
               /\ SubSeq(query, p, end) = t
               /\ \A n \in p..end : ~IsBlank(n)
               /\ p = 1 \/ IsBlank(p - 1)
               /\ \A n \in (end + 1)..Len(query) : IsBlank(n)

\* C26: subject resolution.  _extract_company_name returns the first name of
\* the list, in list order, that occurs in the query whatever the case; when
\* none occurs it returns the last whitespace-delimited token of the query,
\* or "Company" when the query has no token.
C26_SubjectResolution ==
    pc = "extracted" =>
        IF Occurring # {}
        THEN \E n \in Occurring :
                 /\ company = KnownSubjects[n]
                 /\ \A m \in Occurring : n <= m
        ELSE IF \A n \in 1..Len(query) : IsBlank(n)
        THEN company = "Company"
        ELSE IsLastToken(company)

\* Tesla comes before Apple in the query and Apple is the subject
C26_Witness ==
    /\ pc = "extracted"
    /\ Contains(Lower(query), "tesla")
    /\ Contains(Lower(query), "apple")
    /\ Find(Lower(query), "tesla") < Find(Lower(query), "apple")
    /\ company = "Apple"

\* the arguments the binding rule gives a call: the extracted subject for the
\* company-scoped operations, the extracted scope for the market-scoped one,
\* both for the report
BoundArgs(tool_name) ==
    LET subject == extract_company_name(query)
        scope == extract_market(query, subject)
    IN  CASE tool_name \in {"search_company_info", "search_competitor_analysis",
                            "search_latest_news"} -> <<subject>>
          [] tool_name = "analyze_market_trends" -> <<scope>>
          [] tool_name = "generate_market_report" -> <<subject, scope>>

\* C27: parameter binding.  Every call of one execution receives the entities
\* extracted from the query: the subject for search_company_info,
\* search_competitor_analysis and search_latest_news, the scope for
\* analyze_market_trends, (subject, scope) for generate_market_report; the
\* scope argument always equals the scope the extractor produced.
C27_ParameterBinding ==
    \A k \in DOMAIN calls : calls[k].args = BoundArgs(calls[k].tool)

\* the alias key of each operation
AliasKey(tool_name) ==
    CASE tool_name = "search_company_info"        -> "company_info"
      [] tool_name = "analyze_market_trends"      -> "market_trends"
      [] tool_name = "search_competitor_analysis" -> "competitor_analysis"
      [] tool_name = "search_latest_news"         -> "latest_news"
      [] tool_name = "generate_market_report"     -> "report"

\* the operations of the plan, and those of them whose call raised
Planned == Range(tools_to_use)
Raised == {calls[k].tool : k \in {j \in DOMAIN calls : calls[j].outcome = "raises"}}

\* C28: result-map keying.  For every plan of the planner and every subset of
\* operations that raise, after _execute_research_plan each planned operation
\* has exactly one entry in results["data"]: under its alias key if it
\* returned, under its own tool name holding only {error: message} if it
\* raised, never both; no key exists for an operation outside the plan.
C28_ResultMapKeying ==
    pc = "done" =>
        /\ DOMAIN results.data =
               {AliasKey(t) : t \in Planned \ Raised} \cup (Planned \cap Raised)
        /\ \A t \in Planned \cap Raised :
               /\ DOMAIN results.data[t] = {"error"}
               /\ results.data[t].error # ""
               /\ AliasKey(t) \notin DOMAIN results.data
        /\ \A t \in Planned \ Raised : t \notin DOMAIN results.data
        /\ \A t \in Dispatched \ Planned :
               t \notin DOMAIN results.data /\ AliasKey(t) \notin DOMAIN results.data

\* an execution of a plan of several operations where one raised and
\* another returned
C28_Witness ==
    /\ pc = "done"
    /\ Len(tools_to_use) >= 3
    /\ Planned \cap Raised # {}
    /\ Planned \ Raised # {}
    /\ Planned # Dispatched

\* text begins with prefix
StartsWith(text, prefix) ==
    Len(text) >= Len(prefix) /\ SubSeq(text, 1, Len(prefix)) = prefix

\* the last line of text, its line break aside, ends with marker
ClosesWith(text, marker) ==
    LET body == RStrip(text)
    IN  /\ Len(body) >= Len(marker)
        /\ SubSeq(body, Len(body) - Len(marker) + 1, Len(body)) = marker

\* the error messages the entries of the result map hold
ErrorTexts == {results.data[key].error : key \in ErrorEntries}

\* research returns in this step
Returns == pc # "returned" /\ pc' = "returned"

\* C29: whenever research reaches formatting, the report it returns closes
\* with "Research completed successfully!" and holds no text of any error
\* entry, however many operations failed; the only other return value is a
\* text starting with "Error during research:", and then
\* agent.research_results is left as it was.
C29_ReturnValues ==
    [][Returns =>
          \/ /\ pc = "synthesized"
             /\ ClosesWith(response', "Research completed successfully!")
             /\ \A e \in ErrorTexts : ~Contains(response', e)
          \/ /\ pc # "synthesized"
             /\ StartsWith(response', "Error during research:")
             /\ research_results' = research_results]_vars

\* a first request returned a report though its only operation failed, and
\* a second one returned the error text and left the first one's result cached
C29_Witness ==
    /\ pc = "returned"
    /\ Len(history) = 2
    /\ history[1].calls # <<>>
    /\ \A k \in DOMAIN history[1].calls : history[1].calls[k].outcome = "raises"
    /\ ClosesWith(history[1].response, "Research completed successfully!")
    /\ StartsWith(response, "Error during research:")
    /\ research_results = history[1].results
    /\ research_results # results

----------------------------------------------------------------------------
(* Properties of agent construction, checked under SpecMain *)

\* the model types the configuration's test lists as valid besides google
OtherProviders == {"anthropic", "openai"}

\* the last line the process printed
LastPrinted == printed[Len(printed)]

\* C30: agent construction succeeds only when the model type is "google", a
\* Google API key is set and the generative-AI library is importable; for
\* the model types "anthropic" and "openai", MarketResearchAgent() raises in
\* every configuration, with or without the provider's API key.
C30_Construction ==
    /\ agent = "ready" =>
           /\ env.model_type = "google"
           /\ env.google_key
           /\ env.genai # "missing"
    /\ (env.model_type \in OtherProviders /\ ConstructsAgent /\ pc # "main") =>
           /\ agent = "none"
           /\ requests = 0
           /\ pc = "exited"
           /\ exit_status = 1
           /\ LastPrinted =
                  IF env.other_key
                  THEN "Error: Model type not supported in demo: " \o env.model_type
                  ELSE IF env.model_type = "anthropic"
                  THEN "Error: Anthropic API key not configured"
                  ELSE "Error: OpenAI API key not configured"

\* with MODEL_TYPE=anthropic and its key set, a research run ended at the
\* constructor
C30_Witness ==
    /\ pc = "exited"
    /\ Mode(argv) = "research"
    /\ env.model_type = "anthropic"
    /\ env.other_key
    /\ agent = "none"
    /\ LastPrinted = "Error: Model type not supported in demo: anthropic"

====
